---- MODULE Spec2Model ----
(***************************************************************************)
(* AIMovementAfterDestinationRule (Nullkiller AI pathfinding): the rule    *)
(* that decides, for one edge source -> destination of the path search,    *)
(* whether the destination is blocked / locked and whether an obstacle     *)
(* (guard, removable object, quest gate, enemy hero) can be bypassed.      *)
(*                                                                         *)
(* A graph node is a pair <<coordinate, actor>>.  The node storage keeps,  *)
(* per node, the locked flag, the accumulated army loss, the danger, the   *)
(* special action and the back-link.  One action, Process, is one call of  *)
(* AIMovementAfterDestinationRule::process on one edge; the answers of the *)
(* external collaborators (classifier, object capabilities, risk oracle,   *)
(* node allocation) are its inputs.                                        *)
(*                                                                         *)
(* TurnTimerHandler (server): the turn timer of one player.  Its actions   *)
(* are the handler's callbacks onGameplayStart, onPlayerGetTurn and        *)
(* onPlayerMakingTurn, and the changes of the game state the callbacks     *)
(* read (a battle starts or ends, a query is asked or answered, the        *)
(* player ends the turn).                                                  *)
(***************************************************************************)
EXTENDS Integers, FiniteSets

\* ------------------------------------------------------------------ bounds
\* number of edge evaluations of one search pass that are explored (Spec)
MaxEvals == 2
\* number of edge evaluations explored with every kind of destination (SpecAll)
MaxCalls == 1
\* number of edge evaluations explored with the inputs that lock, unlock and
\* fight (SpecReopen)
MaxReopenEvals == 3
\* width, in bits, of the unsigned arithmetic of the model (uint64_t in the code)
UBits == 11

\* number of turns the player gets (SpecTimer)
MaxTurns == 2
\* largest waitTime passed to onPlayerMakingTurn (SpecTimer)
MaxWait == 2

UMod == 2 ^ UBits

\* the tiles of the modelled map: two neighbouring tiles
Coords == {1, 2}
\* every hero has a plain actor and its battle variant
Actors == {"main", "battle"}
Nodes == Coords \X Actors
NoNode == <<0, "none">>

\* the guardian units of the map
G1 == "G1"
G2 == "G2"
\* maps of guardians: coordinate -> set of guarding creatures
GuardMaps ==
    { [c \in Coords |-> IF c = 1 THEN {G1} ELSE {G1, G2}],
      [c \in Coords |-> IF c = 1 THEN {} ELSE {G1}] }

\* army value of the hero behind both actors
ArmyValues == {1000}
\* values the risk oracle may answer
Dangers == {400, 900}
Losses == {300, 1000}

Blockers == {"NONE", "DESTINATION_GUARDED", "DESTINATION_BLOCKVIS",
             "DESTINATION_VISIT", "DESTINATION_BLOCKED"}
ObjIDs == {"NO_OBJECT", "QUEST_GUARD", "BORDERGUARD", "BORDER_GATE", "OTHER"}
QuestLike == {"QUEST_GUARD", "BORDERGUARD", "BORDER_GATE"}
\* who stands on the destination: nobody, the hero of the evaluated node,
\* another friendly hero, an enemy hero
NodeHeroes == {"none", "self", "ally", "enemy"}

NoAction == [kind |-> "none", coord |-> 0]
QuestAction(c) == [kind |-> "quest", coord |-> c]
BattleAction(c) == [kind |-> "battle", coord |-> c]
Actions == {NoAction} \cup {QuestAction(c) : c \in Coords} \cup {BattleAction(c) : c \in Coords}

VARIABLES
    locked,         \* node -> PathNode::locked
    armyLoss,       \* node -> AIPathNode::armyLoss
    danger,         \* node -> AIPathNode::danger
    specialAction,  \* node -> AIPathNode::specialAction
    theNodeBefore,  \* node -> back-link recorded by commit / the previous-node rule
    guards,         \* coordinate -> guarding creatures (the map, fixed during a pass)
    armyValue,      \* actor -> ChainActor::armyValue
    maxComputed,    \* node -> largest danger the oracle computed for an accepted bypass into it
    everLocked,     \* node -> the node was locked at the end of some evaluation
    evals,          \* number of evaluations done in this pass
    ev              \* the last evaluation: its edge, its inputs, its outcome

VARIABLES
    started,        \* onGameplayStart has run for the player
    human,          \* gs->players.at(player).human
    enabled,        \* si->turnTimerInfo.isEnabled()
    cfgTurnTimer,   \* si->turnTimerInfo.turnTimer
    cfgBaseTimer,   \* si->turnTimerInfo.baseTimer
    turnTimer,      \* timers[player].turnTimer
    baseTimer,      \* timers[player].baseTimer
    curB,           \* gs->curB, a battle is in progress
    topQuery,       \* gameHandler.queries->topQuery(color), a query is pending
    inTurn,         \* the player is making the turn (turn order)
    turns,          \* number of turns the player has got
    tcall           \* the last callback: its name, its waitTime, its outcome

timerVars == <<started, human, enabled, cfgTurnTimer, cfgBaseTimer, turnTimer,
               baseTimer, curB, topQuery, inTurn, turns, tcall>>

nodeVars == <<locked, armyLoss, danger, specialAction, theNodeBefore, guards,
              armyValue, maxComputed, everLocked, evals, ev>>

vars == <<nodeVars, timerVars>>

Max(a, b) == IF a >= b THEN a ELSE b

\* unsigned arithmetic of width UBits
USub(a, b) == (a - b + UMod) % UMod
UAdd(a, b) == (a + b) % UMod

\* ------------------------------------------------------------------ inputs
\* The answers of the collaborators during one call of process():
\*   ineff      nodeStorage->isMovementIneficient(source, destination)
\*   blocker    getBlockingReason(...)
\*   dist       nodeStorage->isDistanceLimitReached(source, destination)
\*   obj        destination.nodeObject (its ID, or NO_OBJECT for nullptr)
\*   missionNone  questObj->quest->missionType == CQuest::MISSION_NONE
\*   removable  isObjectRemovable(destination.nodeObject)
\*   nodeHero   destination.nodeHero and destination.heroRelations
\*   visited    destination.nodeObject->wasVisited(nodeHero->tempOwner)
\*   questOk    questObj->checkQuest(nodeHero)
\*   allocOk    nodeStorage->getOrCreateNode(...) returned a node
\*   danger     nodeStorage->evaluateDanger(...)
\*   loss       nodeStorage->evaluateArmyLoss(...)
DefaultInput ==
    [ineff |-> FALSE, blocker |-> "NONE", dist |-> FALSE, obj |-> "NO_OBJECT",
     missionNone |-> FALSE, removable |-> FALSE, nodeHero |-> "none",
     visited |-> FALSE, questOk |-> FALSE, allocOk |-> TRUE,
     danger |-> 400, loss |-> 300]

\* The answers of the node allocator and of the risk oracle to one battle
\* bypass; the oracle is not asked when no node can be allocated.
BattleAnswers ==
    {[allocOk |-> FALSE, danger |-> DefaultInput.danger, loss |-> DefaultInput.loss]}
    \cup [allocOk : {TRUE}, danger : Dangers, loss : Losses]

\* The same for a destination behind a blocking visitable object: one
\* danger, a node is allocated.
ObjectBattleAnswers ==
    [allocOk : {TRUE}, danger : {DefaultInput.danger}, loss : Losses]

WithBattle(in, b) ==
    [in EXCEPT !.allocOk = b.allocOk, !.danger = b.danger, !.loss = b.loss]

\* An answer that a call never asks for is kept at its default, so that
\* every input stands for one distinguishable run of process().
IneffInputs == {[DefaultInput EXCEPT !.ineff = TRUE]}

NoneInputs == {DefaultInput}

VisitInputs ==
    {[DefaultInput EXCEPT !.blocker = "DESTINATION_VISIT", !.dist = d] : d \in BOOLEAN}

GuardedInputs ==
    {WithBattle([DefaultInput EXCEPT !.blocker = "DESTINATION_GUARDED", !.dist = d], b) :
        d \in BOOLEAN, b \in BattleAnswers}

BlockedInputs ==
    {[DefaultInput EXCEPT !.blocker = "DESTINATION_BLOCKED", !.dist = d] : d \in BOOLEAN}
    \cup
    {WithBattle([DefaultInput EXCEPT !.blocker = "DESTINATION_BLOCKED", !.dist = d,
                                     !.nodeHero = "enemy"], b) :
        d \in BOOLEAN, b \in BattleAnswers}

\* the objects a blocking visitable destination may hold
NoObjectInput == [DefaultInput EXCEPT !.blocker = "DESTINATION_BLOCKVIS"]

ObjectInputs ==
    {NoObjectInput}
    \cup {[NoObjectInput EXCEPT !.obj = "QUEST_GUARD", !.missionNone = TRUE]}
    \cup {[NoObjectInput EXCEPT !.obj = o, !.visited = v, !.questOk = q] :
            o \in QuestLike, v \in BOOLEAN, q \in BOOLEAN}
    \cup {[NoObjectInput EXCEPT !.obj = "OTHER", !.removable = r, !.nodeHero = h] :
            r \in BOOLEAN, h \in NodeHeroes}

BlockvisInputs ==
    {[NoObjectInput EXCEPT !.dist = d] : d \in BOOLEAN}
    \cup {[NoObjectInput EXCEPT !.obj = "QUEST_GUARD", !.missionNone = TRUE, !.dist = d] :
            d \in BOOLEAN}
    \cup {WithBattle([o EXCEPT !.dist = d], b) :
            o \in {x \in ObjectInputs : x.obj # "NO_OBJECT" /\ ~x.missionNone},
            d \in BOOLEAN, b \in ObjectBattleAnswers}

\* the destinations without a blocking visitable object
CoreInputs ==
    IneffInputs \cup NoneInputs \cup VisitInputs \cup GuardedInputs \cup BlockedInputs

\* the destinations that lock a node, unlock it and fight at it
ReopenInputs == IneffInputs \cup VisitInputs \cup GuardedInputs

\* every kind of destination
Inputs == CoreInputs \cup BlockvisInputs

\* ------------------------------------------------------- node storage
\* ChainActor::battleActor: the battle variant of an actor; the battle
\* variant is its own battle variant.
battleActor(a) == "battle"

\* ChainActor::allowBattle: only the battle variant may initiate combat.
allowBattle(a) == a = "battle"

\* AINodeStorage::getHero(node): the hero of the node's actor; both actors
\* of the model belong to the evaluating hero.
getHero(node) == "self"

\* AINodeStorage::getOrCreateNode(coord, layer, actor): the node of that
\* actor at that coordinate, or nothing when no node can be allocated.
getOrCreateNode(coord, actor, allocOk) ==
    IF allocOk THEN <<coord, actor>> ELSE NoNode

\* AINodeStorage::commit(destination, source): commits the transition
\* source -> destination.  The node records hold what was accumulated along
\* the path reaching them, propagated forward from the predecessor: the
\* destination node takes over the army loss and the danger accumulated at
\* the source and is linked back to it.
commit(c, src) ==
    [c EXCEPT !.armyLoss[c.node] = c.armyLoss[src],
              !.danger[c.node] = c.danger[src],
              !.theNodeBefore[c.node] = src,
              !.tr.commits = @ + 1]

\* AIPreviousNodeRule::process(source, destination): the plain
\* predecessor-recording rule.
previousNodeRule(c, src) ==
    [c EXCEPT !.theNodeBefore[c.node] = src]

\* AINodeStorage::updateAINode(node, fn) with fn resetting specialAction
updateAINode(c, node, action) ==
    [c EXCEPT !.specialAction[node] = action]

\* the risk oracle
evaluateDanger(in) == in.danger
evaluateArmyLoss(in) == in.loss

\* ------------------------------------------------------- the rule
NoTrace ==
    [classified |-> FALSE, guardQueries |-> 0,
     removableCalls |-> 0, removableOk |-> FALSE, questAttached |-> FALSE,
     guardCalls |-> 0, guardOk |-> FALSE,
     battleCalls |-> 0, battleOk |-> FALSE, allocCalls |-> 0, oracleCalls |-> 0,
     battleNode |-> NoNode, commits |-> 0, allowBypass |-> FALSE]

\* destination.nodeHero && destination.heroRelations == PlayerRelations::ENEMIES
enemyHero(in) == in.nodeHero = "enemy"

\* line 217: if(loss < actualArmyValue)
M_acceptsLossOrEqual(loss, actualArmyValue) == loss <= actualArmyValue
acceptsLoss(loss, actualArmyValue) == loss < actualArmyValue

\* line 222: battleNode->armyLoss += loss
M_subtractLoss(old, loss) == USub(old, loss)
addLoss(old, loss) == UAdd(old, loss)

\* line 224: vstd::amax(battleNode->danger, danger)
M_sumDanger(old, d) == UAdd(old, d)
amaxDanger(old, d) == Max(old, d)

\* line 228: battleNode->specialAction = std::make_shared<BattleAction>(destination.coord)
M_noBattleAction(coord) == NoAction
makeBattleAction(coord) == BattleAction(coord)

\* line 186: destNode->actor->battleActor, the actor keying the battle node
M_actorOfDestination(destNode) == destNode[2]
battleActorOf(destNode) == battleActor(destNode[2])

\* line 201: if(battleNode->locked)
M_ignoreLocked(c, battleNode) == FALSE
battleNodeLocked(c, battleNode) == c.locked[battleNode]

\* line 240: return false, the loss is not acceptable
M_refuseAfterRedirect(c, battleNode) == [c EXCEPT !.ok = FALSE, !.node = battleNode]
refuseLoss(c, battleNode) == [c EXCEPT !.ok = FALSE]

bypassBattle(c, src, coord, in) ==
    LET destNode == c.node
        battleNode == getOrCreateNode(coord, battleActorOf(destNode), in.allocOk)
        c0 == [c EXCEPT !.tr.battleCalls = @ + 1, !.tr.allocCalls = @ + 1,
                        !.tr.battleNode = battleNode]
    IN  IF battleNode = NoNode
        THEN [c0 EXCEPT !.ok = FALSE]
        ELSE IF battleNodeLocked(c0, battleNode)
        THEN [c0 EXCEPT !.ok = FALSE]
        ELSE
          LET dangerEst == evaluateDanger(in)
              actualArmyValue == USub(armyValue[src[2]], c0.armyLoss[src])
              loss == evaluateArmyLoss(in)
              c1 == [c0 EXCEPT !.tr.oracleCalls = @ + 2]
          IN  IF acceptsLoss(loss, actualArmyValue)
              THEN
                LET c2 == commit([c1 EXCEPT !.node = battleNode], src)
                    c3 == [c2 EXCEPT !.armyLoss[battleNode] = addLoss(@, loss)]
                    c4 == [c3 EXCEPT !.danger[battleNode] = amaxDanger(@, dangerEst)]
                    c5 == previousNodeRule(c4, src)
                    c6 == [c5 EXCEPT !.specialAction[battleNode] = makeBattleAction(coord)]
                IN  [c6 EXCEPT !.ok = TRUE, !.tr.battleOk = TRUE]
              ELSE refuseLoss(c1, battleNode)

\* line 158-160: guardsAlreadyBypassed && srcNode->actor->allowBattle
M_ignoreAllowBattle(remaining, srcGuardians, src) ==
    remaining = {} /\ srcGuardians # {}
guardsAlreadyBypassed(remaining, srcGuardians, src) ==
    remaining = {} /\ srcGuardians # {} /\ allowBattle(src[2])

bypassDestinationGuards(c, destGuardians, src, coord, in) ==
    LET srcGuardians == guards[src[1]]
        c0 == [c EXCEPT !.tr.guardCalls = @ + 1, !.tr.guardQueries = @ + 1]
    IN  IF destGuardians = {}
        THEN [c0 EXCEPT !.ok = FALSE]
        ELSE
          LET remaining == {g \in destGuardians : g \notin srcGuardians}
          IN  IF guardsAlreadyBypassed(remaining, srcGuardians, src)
              THEN [c0 EXCEPT !.ok = TRUE, !.tr.guardOk = TRUE]
              ELSE LET r == bypassBattle(c0, src, coord, in)
                   IN  [r EXCEPT !.tr.guardOk = r.ok]

\* line 105-108: a quest guard without a mission
M_noMissionPasses(in) == TRUE
noMissionResult(in) == FALSE

\* line 128: nodeStorage->getHero(destination.node) == destination.nodeHero
M_anyHeroReenters(node, in) == TRUE
ownHeroAtDestination(node, in) == getHero(node) = in.nodeHero

\* line 110-111: !wasVisited(nodeHero->tempOwner) || !questObj->checkQuest(nodeHero)
M_onlyUnvisited(in) == ~in.visited
needsQuestAction(in) == ~in.visited \/ ~in.questOk

bypassRemovableObject(c, src, coord, in) ==
    LET c0 == [c EXCEPT !.tr.removableCalls = @ + 1]
        done(x, res) == [x EXCEPT !.ok = res, !.tr.removableOk = res]
    IN  IF in.obj \in QuestLike
        THEN IF in.obj = "QUEST_GUARD" /\ in.missionNone
             THEN done(c0, noMissionResult(in))
             ELSE IF needsQuestAction(in)
             THEN done([updateAINode(c0, c0.node, QuestAction(coord))
                            EXCEPT !.tr.questAttached = TRUE], TRUE)
             ELSE done(c0, TRUE)
        ELSE IF ~enemyHero(in) /\ ~in.removable
        THEN done(c0, ownHeroAtDestination(c0.node, in))
        ELSE done(c0, TRUE)

bypassBlocker(c, src, coord, in) ==
    IF enemyHero(in)
    THEN bypassBattle(c, src, coord, in)
    ELSE [c EXCEPT !.ok = FALSE]

\* line 72: destination.blocked = !allowBypass || isDistanceLimitReached(...)
M_blockedIgnoresDistance(allowBypass, dist) == ~allowBypass
blockedVerdict(allowBypass, dist) == ~allowBypass \/ dist

\* line 73: destination.node->locked = !allowBypass
M_lockedOnDistance(allowBypass, dist) == ~allowBypass \/ dist
lockedVerdict(allowBypass, dist) == ~allowBypass

\* line 33-34: the inefficient movement locks and blocks the destination
M_blockInefficientOnly(c) == [c EXCEPT !.blocked = TRUE]
lockInefficient(c) == [c EXCEPT !.locked[c.node] = TRUE, !.blocked = TRUE]

\* line 56: if(allowBypass && destGuardians.size())
M_guardsWhateverTheirNumber(allowBypass, destGuardians) == allowBypass
needsGuardBypass(allowBypass, destGuardians) == allowBypass /\ destGuardians # {}

process(c, src, coord, in) ==
    IF in.ineff
    THEN lockInefficient(c)
    ELSE
      LET c1 == [c EXCEPT !.tr.classified = TRUE]
      IN  IF in.blocker = "NONE"
          THEN c1
          ELSE
            LET destGuardians == guards[coord]
                c2 == [c1 EXCEPT !.tr.guardQueries = @ + 1]
                r == CASE in.blocker = "DESTINATION_GUARDED" ->
                            bypassDestinationGuards(c2, destGuardians, src, coord, in)
                       [] in.blocker = "DESTINATION_BLOCKVIS" ->
                            LET r1 == IF in.obj # "NO_OBJECT"
                                      THEN bypassRemovableObject(c2, src, coord, in)
                                      ELSE [c2 EXCEPT !.ok = FALSE]
                            IN  IF needsGuardBypass(r1.ok, destGuardians)
                                THEN bypassDestinationGuards(r1, destGuardians, src, coord, in)
                                ELSE r1
                       [] in.blocker = "DESTINATION_VISIT" ->
                            [c2 EXCEPT !.ok = TRUE]
                       [] in.blocker = "DESTINATION_BLOCKED" ->
                            bypassBlocker(c2, src, coord, in)
                allowBypass == r.ok
            IN  [r EXCEPT !.blocked = blockedVerdict(allowBypass, in.dist),
                          !.locked[r.node] = lockedVerdict(allowBypass, in.dist),
                          !.tr.allowBypass = allowBypass]

\* ------------------------------------------------- TurnTimerHandler
\* the timer values of the start info, in ticks (milliseconds in the code);
\* the timers are int in the code and stay far from its limits here
CfgTurnTimers == {0, 3}
CfgBaseTimers == {0, 2}
\* the waitTime values of the server's tick
WaitTimes == 0 .. MaxWait
PositiveWaitTimes == 1 .. MaxWait

\* what tcall records when no callback has run
NoCall == [op |-> "none", waitTime |-> 0, ended |-> FALSE, depth |-> 0]

\* line 67: state.human && si->turnTimerInfo.isEnabled() && !gs->curB
M_timerRunsInBattle(isHuman, isEnabled, battle) == isHuman /\ isEnabled
timerRuns(isHuman, isEnabled, battle) == isHuman /\ isEnabled /\ ~battle

\* line 71: timers[player].turnTimer -= waitTime
M_keepTurnTime(timer, waitTime) == timer
spendTurnTime(timer, waitTime) == timer - waitTime

\* line 85-86: the base timer becomes the turn timer
moveBaseTimer(t) == [t EXCEPT !.turnTimer = t.baseTimer, !.baseTimer = 0]

\* line 58-92: TurnTimerHandler::onPlayerMakingTurn.  t holds the player's
\* timers, whether turnOrder->onPlayerEndsTurn was called, and the depth of
\* the nested calls.  The TurnTimeUpdate pack (line 74-81) goes to the
\* clients and changes nothing in the handler.
RECURSIVE onPlayerMakingTurn(_, _)
onPlayerMakingTurn(t, waitTime) ==
    IF ~timerRuns(human, enabled, curB)
    THEN t
    ELSE IF t.turnTimer > 0
         THEN [t EXCEPT !.turnTimer = spendTurnTime(@, waitTime)]
         ELSE IF t.baseTimer > 0
              THEN onPlayerMakingTurn(
                       [moveBaseTimer(t) EXCEPT !.depth = @ + 1], 0)
              ELSE IF ~topQuery
                   THEN [t EXCEPT !.ended = TRUE]
                   ELSE t

\* the timer variables before the game: nothing has run
TimerIdle ==
    /\ started = FALSE
    /\ human = FALSE
    /\ enabled = FALSE
    /\ cfgTurnTimer = 0
    /\ cfgBaseTimer = 0
    /\ turnTimer = 0
    /\ baseTimer = 0
    /\ curB = FALSE
    /\ topQuery = FALSE
    /\ inTurn = FALSE
    /\ turns = 0
    /\ tcall = NoCall

\* the handler after its construction, for one player and one start info
TimerConstructed ==
    /\ started = FALSE
    /\ human \in BOOLEAN
    /\ enabled \in BOOLEAN
    /\ cfgTurnTimer \in CfgTurnTimers
    /\ cfgBaseTimer \in CfgBaseTimers
    /\ turnTimer = 0
    /\ baseTimer = 0
    /\ curB = FALSE
    /\ topQuery = FALSE
    /\ inTurn = FALSE
    /\ turns = 0
    /\ tcall = NoCall

\* line 29-39: TurnTimerHandler::onGameplayStart
GameplayStart ==
    /\ ~started
    /\ started' = TRUE
    /\ IF enabled
       THEN baseTimer' = cfgBaseTimer /\ turnTimer' = 0
       ELSE UNCHANGED <<baseTimer, turnTimer>>
    /\ tcall' = [NoCall EXCEPT !.op = "onGameplayStart"]
    /\ UNCHANGED <<human, enabled, cfgTurnTimer, cfgBaseTimer, curB, topQuery,
                   inTurn, turns>>
    /\ UNCHANGED nodeVars

\* line 41-56: TurnTimerHandler::onPlayerGetTurn, called by the turn order
\* when the player gets the turn
PlayerGetTurn ==
    /\ started /\ ~inTurn /\ turns < MaxTurns
    /\ inTurn' = TRUE
    /\ turns' = turns + 1
    /\ IF enabled
       THEN baseTimer' = baseTimer + turnTimer /\ turnTimer' = cfgTurnTimer
       ELSE UNCHANGED <<baseTimer, turnTimer>>
    /\ tcall' = [NoCall EXCEPT !.op = "onPlayerGetTurn"]
    /\ UNCHANGED <<started, human, enabled, cfgTurnTimer, cfgBaseTimer, curB,
                   topQuery>>
    /\ UNCHANGED nodeVars

\* line 58-92: one call of TurnTimerHandler::onPlayerMakingTurn by the
\* server's tick, for the player who is making the turn
PlayerMakingTurn(W) ==
    /\ started /\ inTurn
    /\ \E waitTime \in W :
         LET r == onPlayerMakingTurn(
                      [turnTimer |-> turnTimer, baseTimer |-> baseTimer,
                       ended |-> FALSE, depth |-> 0], waitTime)
         IN  /\ turnTimer' = r.turnTimer
             /\ baseTimer' = r.baseTimer
             /\ inTurn' = ~r.ended
             /\ tcall' = [op |-> "onPlayerMakingTurn", waitTime |-> waitTime,
                          ended |-> r.ended, depth |-> r.depth]
    /\ UNCHANGED <<started, human, enabled, cfgTurnTimer, cfgBaseTimer, curB,
                   topQuery, turns>>
    /\ UNCHANGED nodeVars

\* the player ends the turn before the timer runs out
PlayerEndsTurn ==
    /\ started /\ inTurn
    /\ inTurn' = FALSE
    /\ tcall' = [NoCall EXCEPT !.op = "playerEndsTurn"]
    /\ UNCHANGED <<started, human, enabled, cfgTurnTimer, cfgBaseTimer,
                   turnTimer, baseTimer, curB, topQuery, turns>>
    /\ UNCHANGED nodeVars

\* gs->curB: a battle starts, a battle ends
BattleStarts ==
    /\ started /\ ~curB
    /\ curB' = TRUE
    /\ tcall' = [NoCall EXCEPT !.op = "battleStarts"]
    /\ UNCHANGED <<started, human, enabled, cfgTurnTimer, cfgBaseTimer,
                   turnTimer, baseTimer, topQuery, inTurn, turns>>
    /\ UNCHANGED nodeVars

BattleEnds ==
    /\ started /\ curB
    /\ curB' = FALSE
    /\ tcall' = [NoCall EXCEPT !.op = "battleEnds"]
    /\ UNCHANGED <<started, human, enabled, cfgTurnTimer, cfgBaseTimer,
                   turnTimer, baseTimer, topQuery, inTurn, turns>>
    /\ UNCHANGED nodeVars

\* queries->topQuery(color): a query is put to the player, the player replies
QueryAsked ==
    /\ started /\ ~topQuery
    /\ topQuery' = TRUE
    /\ tcall' = [NoCall EXCEPT !.op = "queryAsked"]
    /\ UNCHANGED <<started, human, enabled, cfgTurnTimer, cfgBaseTimer,
                   turnTimer, baseTimer, curB, inTurn, turns>>
    /\ UNCHANGED nodeVars

QueryAnswered ==
    /\ started /\ topQuery
    /\ topQuery' = FALSE
    /\ tcall' = [NoCall EXCEPT !.op = "queryAnswered"]
    /\ UNCHANGED <<started, human, enabled, cfgTurnTimer, cfgBaseTimer,
                   turnTimer, baseTimer, curB, inTurn, turns>>
    /\ UNCHANGED nodeVars

\* ------------------------------------------------------- the state machine
NoEval ==
    [src |-> NoNode, dst |-> NoNode, in |-> DefaultInput, node |-> NoNode,
     blocked |-> FALSE, tr |-> NoTrace]

\* the node storage at the start of a pass
InitNodes ==
    /\ locked = [n \in Nodes |-> FALSE]
    /\ armyLoss = [n \in Nodes |-> 0]
    /\ danger = [n \in Nodes |-> 0]
    /\ specialAction = [n \in Nodes |-> NoAction]
    /\ theNodeBefore = [n \in Nodes |-> NoNode]
    /\ guards \in GuardMaps
    /\ \E v \in ArmyValues : armyValue = [a \in Actors |-> v]
    /\ maxComputed = [n \in Nodes |-> 0]
    /\ everLocked = [n \in Nodes |-> FALSE]
    /\ evals = 0
    /\ ev = NoEval

Init == InitNodes /\ TimerIdle

\* the CDestinationNodeInfo and the node storage at the start of a call
StartCtx(dst) ==
    [locked |-> locked, armyLoss |-> armyLoss, danger |-> danger,
     specialAction |-> specialAction, theNodeBefore |-> theNodeBefore,
     node |-> dst, blocked |-> FALSE, ok |-> FALSE, tr |-> NoTrace]

\* One call of AIMovementAfterDestinationRule::process on the edge
\* src -> dst, with the answers drawn from I.  The search offers the rule
\* the neighbouring tiles of the source, as nodes of the source's actor.
Process(I, bound) ==
    /\ evals < bound
    /\ \E src \in Nodes, dst \in Nodes, in \in I :
         /\ src[1] # dst[1]
         /\ src[2] = dst[2]
         /\ LET r == process(StartCtx(dst), src, dst[1], in)
            IN  /\ locked' = r.locked
                /\ armyLoss' = r.armyLoss
                /\ danger' = r.danger
                /\ specialAction' = r.specialAction
                /\ theNodeBefore' = r.theNodeBefore
                /\ maxComputed' =
                       IF r.tr.battleOk
                       THEN [maxComputed EXCEPT ![r.node] = Max(@, in.danger)]
                       ELSE maxComputed
                /\ everLocked' = [n \in Nodes |-> everLocked[n] \/ r.locked[n]]
                /\ ev' = [src |-> src, dst |-> dst, in |-> in, node |-> r.node,
                          blocked |-> r.blocked, tr |-> r.tr]
    /\ evals' = evals + 1
    /\ UNCHANGED <<guards, armyValue>>
    /\ UNCHANGED timerVars

Next == Process(CoreInputs, MaxEvals)

Spec == Init /\ [][Next]_vars

NextAll == Process(Inputs, MaxCalls)

SpecAll == Init /\ [][NextAll]_vars

NextReopen == Process(ReopenInputs, MaxReopenEvals)

SpecReopen == Init /\ [][NextReopen]_vars

\* the turn timer of one player; the path search does not run
InitTimer == InitNodes /\ TimerConstructed

NextTimer ==
    \/ GameplayStart
    \/ PlayerGetTurn
    \/ PlayerMakingTurn(WaitTimes)
    \/ PlayerEndsTurn
    \/ BattleStarts
    \/ BattleEnds
    \/ QueryAsked
    \/ QueryAnswered

\* the server's tick calls onPlayerMakingTurn with the time that has passed,
\* again and again, as long as the game runs
SpecTimer ==
    /\ InitTimer
    /\ [][NextTimer]_vars
    /\ WF_vars(PlayerMakingTurn(PositiveWaitTimes))

\* ------------------------------------------------------- properties
\* an evaluation has been made, and ev describes it
Evaluated == evals > 0

\* the step is one call of process()
IsCall == evals' = evals + 1

\* the army value left to the source node of the last evaluation
RemainingArmyValue == armyValue[ev.src[2]] - armyLoss[ev.src]

\* C1: once a node's locked flag is true, no later evaluation of an edge
\* clears it.
C1_LockedNeverCleared ==
    [][\A n \in Nodes : locked[n] => locked'[n]]_vars

\* C2: an evaluation of an edge into a node that is already locked ends
\* with destination.blocked = TRUE, and runs no classification, no guardian
\* query, no risk-oracle call and no node mutation.
C2_LockedDestinationIdempotent ==
    [][(IsCall /\ locked[ev'.dst]) =>
          /\ ev'.blocked
          /\ ~ev'.tr.classified
          /\ ev'.tr.guardQueries = 0
          /\ ev'.tr.oracleCalls = 0
          /\ <<locked, armyLoss, danger, specialAction, theNodeBefore>>' =
             <<locked, armyLoss, danger, specialAction, theNodeBefore>>]_vars

\* C3: for an edge that is not inefficient and has a blocking reason,
\* process() ends with blocked = (~allowBypass \/ distance limit reached) and
\* with the destination node's locked = ~allowBypass.
C3_FinalVerdict ==
    (Evaluated /\ ~ev.in.ineff /\ ev.in.blocker # "NONE") =>
        /\ ev.blocked = (~ev.tr.allowBypass \/ ev.in.dist)
        /\ locked[ev.node] = ~ev.tr.allowBypass

\* C3 witness: bypass allowed, distance limit reached: blocked, not locked
C3_Witness ==
    /\ Evaluated /\ ~ev.in.ineff /\ ev.in.blocker # "NONE"
    /\ ev.tr.allowBypass /\ ev.in.dist
    /\ ev.blocked /\ ~locked[ev.node]

\* C4: the battle bypass succeeds exactly when the estimated loss is
\* strictly less than the remaining army value of the source (army value
\* of its actor minus its accumulated loss).
C4_BattleThreshold ==
    Evaluated =>
        /\ ev.tr.battleOk => ev.tr.oracleCalls > 0
        /\ ev.tr.oracleCalls > 0 => (ev.tr.battleOk <=> ev.in.loss < RemainingArmyValue)

\* C4 witness: the estimated loss equals the remaining army value, and the
\* bypass is refused
C4_Witness ==
    /\ Evaluated /\ ev.tr.oracleCalls > 0
    /\ ev.in.loss = RemainingArmyValue
    /\ ~ev.tr.battleOk

C7_GuardSubtraction ==
    [][(IsCall /\ ev'.tr.guardCalls > 0 /\ guards[ev'.dst[1]] # {}) =>
          LET srcGuardians == guards[ev'.src[1]]
              remaining == guards[ev'.dst[1]] \ srcGuardians
          IN  IF remaining = {} /\ srcGuardians # {} /\ allowBattle(ev'.src[2])
              THEN /\ ev'.tr.guardOk
                   /\ ev'.tr.battleCalls = 0
                   /\ ev'.tr.allocCalls = 0
                   /\ ev'.node = ev'.dst
                   /\ armyLoss' = armyLoss
                   /\ danger' = danger
                   /\ \A n \in Nodes : specialAction'[n].kind = "battle" =>
                                          specialAction'[n] = specialAction[n]
              ELSE /\ ev'.tr.battleCalls = 1
                   /\ ev'.tr.guardOk = ev'.tr.battleOk]_vars

\* C7 witness: the guard bypass succeeded without a battle bypass
C7_Witness ==
    /\ Evaluated /\ ev.tr.guardCalls > 0
    /\ ev.tr.guardOk /\ ev.tr.battleCalls = 0
    /\ guards[ev.dst[1]] \ guards[ev.src[1]] = {}

\* the last evaluation ran the removable-object bypass on a quest guard
\* whose quest has no mission
QuestGuardNoMission ==
    /\ Evaluated /\ ev.tr.removableCalls > 0
    /\ ev.in.obj = "QUEST_GUARD" /\ ev.in.missionNone

\* C8 (as claimed): a quest guard without a mission is always bypassable,
\* and no special action is attached.
C8_NoMissionPasses ==
    QuestGuardNoMission => (ev.tr.removableOk /\ ~ev.tr.questAttached)

\* C8 (amended): a quest guard without a mission is never bypassable: the
\* removable-object bypass refuses it, and no special action is attached.
C8_NoMissionRefused ==
    QuestGuardNoMission =>
        /\ ~ev.tr.removableOk
        /\ ~ev.tr.questAttached
        /\ ~ev.tr.allowBypass
        /\ ev.tr.guardCalls = 0

\* C8 witness: such a quest guard was evaluated
C8_Witness ==
    QuestGuardNoMission /\ ev.blocked /\ locked[ev.dst]

\* the last evaluation ran the removable-object bypass on an object that is
\* neither quest-guard-like nor removable, on a tile without an enemy hero
PlainObjectNoEnemy ==
    /\ Evaluated /\ ev.tr.removableCalls > 0
    /\ ev.in.obj \notin QuestLike
    /\ ~ev.in.removable
    /\ ev.in.nodeHero # "enemy"

\* C9: for such a destination the removable-object bypass succeeds exactly
\* when the hero of the destination node is the hero standing on the
\* destination, and it attaches no special action.
C9_OwnHeroReentry ==
    PlainObjectNoEnemy =>
        /\ ev.tr.removableOk <=> (ev.in.nodeHero = getHero(ev.dst))
        /\ ~ev.tr.questAttached

\* C9 witness: the node's own hero stands on the destination and the bypass
\* succeeds
C9_Witness ==
    /\ PlainObjectNoEnemy
    /\ ev.in.nodeHero = getHero(ev.dst)
    /\ ev.tr.removableOk

\* C10: scenario (army value 1000, nothing lost so far, danger 400, loss
\* 300): when the battle bypass accepts the risk on a fresh battle-variant
\* node, from a source without accumulated loss and danger, and the distance
\* limit is not reached, destination.node is the battle-variant node, its
\* armyLoss is increased by the loss, its danger is the maximum of its prior
\* danger and the computed danger, a battle action at the destination
\* coordinate is attached to it, and it is neither blocked nor locked.
C10_AcceptedBattle ==
    [][LET bn == <<ev'.dst[1], battleActor(ev'.dst[2])>>
       IN  (/\ IsCall /\ ev'.tr.battleOk /\ ~ev'.in.dist
            /\ armyLoss[bn] = 0 /\ danger[bn] = 0
            /\ specialAction[bn] = NoAction /\ ~locked[bn]
            /\ armyLoss[ev'.src] = 0 /\ danger[ev'.src] = 0) =>
              /\ ev'.node = bn
              /\ armyLoss'[bn] = armyLoss[bn] + ev'.in.loss
              /\ danger'[bn] = Max(danger[bn], ev'.in.danger)
              /\ specialAction'[bn] = BattleAction(ev'.dst[1])
              /\ ~ev'.blocked
              /\ ~locked'[bn]]_vars

\* C10 witness: the scenario's values
C10_Witness ==
    /\ Evaluated /\ ev.tr.battleOk /\ ~ev.in.dist
    /\ ev.in.blocker = "DESTINATION_GUARDED"
    /\ armyValue[ev.src[2]] = 1000 /\ armyLoss[ev.src] = 0
    /\ ev.in.loss = 300 /\ ev.in.danger = 400
    /\ ev.node = <<ev.dst[1], "battle">> /\ ev.node # ev.dst
    /\ armyLoss[ev.node] = 300 /\ danger[ev.node] = 400
    /\ specialAction[ev.node] = BattleAction(ev.dst[1])
    /\ ~ev.blocked /\ ~locked[ev.node]

\* C11: when the transition is reported inefficient, process() sets the
\* destination node's locked flag and destination.blocked and stops: no
\* classification, no guardian query, no bypass strategy, and no other
\* change on any node (armyLoss, danger, special action, back-link, the
\* locked flag of the other nodes, the identity of destination.node).
C11_InefficientShortCircuit ==
    [][(IsCall /\ ev'.in.ineff) =>
          /\ locked' = [locked EXCEPT ![ev'.dst] = TRUE]
          /\ ev'.blocked
          /\ ev'.node = ev'.dst
          /\ ev'.tr = NoTrace
          /\ <<armyLoss, danger, specialAction, theNodeBefore>>' =
             <<armyLoss, danger, specialAction, theNodeBefore>>]_vars

\* C11 witness: an inefficient transition into a node that carries a loss
\* recorded by an earlier battle bypass; the node is locked, the loss stays
C11_Witness ==
    /\ Evaluated /\ ev.in.ineff
    /\ locked[ev.dst] /\ ev.blocked
    /\ armyLoss[ev.dst] > 0
    /\ ev.tr = NoTrace

\* C12 (as claimed): an evaluation in which the battle bypass was not
\* invoked and the transition was not inefficient sets no node's locked
\* flag to true.
C12_LockedOnlyByBattleOrInefficiency ==
    [][(IsCall /\ ~ev'.in.ineff /\ ev'.tr.battleCalls = 0) =>
          \A n \in Nodes : locked'[n] => locked[n]]_vars

\* C12 (amended): an evaluation sets the locked flag of at most one node,
\* the final destination node, and only when the transition was inefficient
\* or the edge has a blocking reason and its bypass was not allowed; every
\* refused bypass locks that node, whether or not the battle bypass was
\* invoked.
C12_LockedByAnyRefusedBypass ==
    [][IsCall =>
          /\ \A n \in Nodes :
                (locked'[n] /\ ~locked[n]) =>
                    /\ n = ev'.node
                    /\ \/ ev'.in.ineff
                       \/ ev'.in.blocker # "NONE" /\ ~ev'.tr.allowBypass
          /\ (~ev'.in.ineff /\ ev'.in.blocker # "NONE" /\ ~ev'.tr.allowBypass)
                => locked'[ev'.node]]_vars

\* C12 witness: a blocked destination without an enemy hero is locked, and
\* neither the battle bypass nor the inefficiency branch has run
C12_Witness ==
    /\ Evaluated /\ ~ev.in.ineff
    /\ ev.in.blocker = "DESTINATION_BLOCKED"
    /\ ~enemyHero(ev.in)
    /\ ev.tr.battleCalls = 0
    /\ locked[ev.dst]

\* the node the battle bypass of the last evaluation asked the storage for
BattleNodeOfEval == ev.tr.battleNode

C14_LockedNeverReopened ==
    [][IsCall =>
          /\ LET bn == ev'.tr.battleNode
             IN  (ev'.tr.battleCalls > 0 /\ (bn = NoNode \/ locked[bn])) =>
                    /\ ~ev'.tr.battleOk
                    /\ ev'.tr.oracleCalls = 0
                    /\ ev'.blocked
          /\ \A n \in Nodes :
                everLocked[n] =>
                    /\ armyLoss'[n] = armyLoss[n]
                    /\ danger'[n] = danger[n]
                    /\ theNodeBefore'[n] = theNodeBefore[n]
                    /\ specialAction'[n] # specialAction[n]
                          => specialAction'[n] \notin {BattleAction(c) : c \in Coords}]_vars

\* C14, within one evaluation: the battle bypass fails closed as above, and
\* a node that is locked when the evaluation starts gets no new loss,
\* danger, back-link or battle action in it.
C14_BattleFailsClosed ==
    [][IsCall =>
          /\ LET bn == ev'.tr.battleNode
             IN  (ev'.tr.battleCalls > 0 /\ (bn = NoNode \/ locked[bn])) =>
                    /\ ~ev'.tr.battleOk
                    /\ ev'.tr.oracleCalls = 0
                    /\ ev'.blocked
          /\ \A n \in Nodes :
                locked[n] =>
                    /\ armyLoss'[n] = armyLoss[n]
                    /\ danger'[n] = danger[n]
                    /\ theNodeBefore'[n] = theNodeBefore[n]
                    /\ specialAction'[n] # specialAction[n]
                          => specialAction'[n] \notin {BattleAction(c) : c \in Coords}]_vars

\* the battle bypass met a locked battle-variant node, other than the
\* destination node, and made no risk-oracle call
C14_Witness ==
    /\ Evaluated /\ ev.tr.battleCalls > 0
    /\ BattleNodeOfEval # NoNode /\ BattleNodeOfEval # ev.dst
    /\ locked[BattleNodeOfEval]
    /\ ~ev.tr.battleOk /\ ev.tr.oracleCalls = 0
    /\ ev.blocked

\* the removable-object bypass of the last evaluation met a quest guard with
\* a configured mission, a border guard or a border gate
QuestGuardLike ==
    /\ Evaluated /\ ev.tr.removableCalls > 0
    /\ ev.in.obj \in QuestLike
    /\ ~(ev.in.obj = "QUEST_GUARD" /\ ev.in.missionNone)

\* C15: for a quest guard with a configured mission, a border guard or a
\* border gate, the removable-object bypass succeeds, and it attaches the
\* quest action at the destination coordinate to the destination node
\* exactly when the hero's owner has not visited the object or the hero
\* does not satisfy the quest condition.
C15_QuestGuardBypass ==
    [][(IsCall /\ QuestGuardLike') =>
          /\ ev'.tr.removableOk
          /\ ev'.tr.questAttached <=> (~ev'.in.visited \/ ~ev'.in.questOk)
          /\ ev'.tr.battleCalls = 0 =>
                specialAction' =
                    IF ev'.tr.questAttached
                    THEN [specialAction EXCEPT ![ev'.dst] = QuestAction(ev'.dst[1])]
                    ELSE specialAction]_vars

\* C15 witness: the object was visited by the owner, the hero does not
\* satisfy the quest, and the quest action is on the destination node
C15_Witness ==
    /\ QuestGuardLike
    /\ ev.in.visited /\ ~ev.in.questOk
    /\ ev.tr.removableOk /\ ev.tr.questAttached
    /\ specialAction[ev.dst] = QuestAction(ev.dst[1])

\* C16: on a DESTINATION_BLOCKVIS edge the bypass is allowed exactly when
\* the destination object is present, the removable-object bypass succeeds,
\* and either the destination has no guardians or the guard bypass succeeds
\* too; the guard bypass is not attempted when the object is absent or the
\* removable-object bypass failed.
C16_BlockvisBypass ==
    (Evaluated /\ ~ev.in.ineff /\ ev.in.blocker = "DESTINATION_BLOCKVIS") =>
        /\ ev.tr.allowBypass <=>
              /\ ev.in.obj # "NO_OBJECT"
              /\ ev.tr.removableOk
              /\ guards[ev.dst[1]] = {} \/ ev.tr.guardOk
        /\ ev.in.obj = "NO_OBJECT" => ev.tr.removableCalls = 0
        /\ ev.tr.guardCalls > 0 =>
              /\ ev.in.obj # "NO_OBJECT"
              /\ ev.tr.removableOk
              /\ guards[ev.dst[1]] # {}

\* C16 witness: the object is removable and the destination has no
\* guardians: the bypass is allowed without a guard bypass
C16_Witness ==
    /\ Evaluated /\ ~ev.in.ineff /\ ev.in.blocker = "DESTINATION_BLOCKVIS"
    /\ ev.tr.removableOk
    /\ guards[ev.dst[1]] = {}
    /\ ev.tr.guardCalls = 0
    /\ ev.tr.allowBypass

\* C17: an evaluation whose battle bypass returns false leaves
\* destination.node at the original destination node, commits no
\* transition, and leaves the battle-variant node's armyLoss, danger,
\* back-link and special action as they were.
C17_FailedBattleChangesNothing ==
    [][(IsCall /\ ev'.tr.battleCalls > 0 /\ ~ev'.tr.battleOk) =>
          /\ ev'.node = ev'.dst
          /\ ev'.tr.commits = 0
          /\ LET bn == <<ev'.dst[1], battleActor(ev'.dst[2])>>
             IN  /\ armyLoss'[bn] = armyLoss[bn]
                 /\ danger'[bn] = danger[bn]
                 /\ theNodeBefore'[bn] = theNodeBefore[bn]
                 /\ specialAction'[bn] = specialAction[bn]]_vars

\* C17 witness: the risk oracle was asked, the loss is not below the
\* remaining army value, and the battle-variant node, other than the
\* destination node, keeps the loss of an earlier bypass
C17_Witness ==
    /\ Evaluated /\ ev.tr.oracleCalls > 0 /\ ~ev.tr.battleOk
    /\ ev.in.loss >= RemainingArmyValue
    /\ ev.node = ev.dst
    /\ BattleNodeOfEval # ev.dst
    /\ armyLoss[BattleNodeOfEval] > 0

IsMakingTurn == tcall'.op = "onPlayerMakingTurn"

\* the turn timer runs for the player and nothing holds the turn's end up
TimerRunsFreely == human /\ enabled /\ ~curB /\ ~topQuery

\* C19: onPlayerMakingTurn ends the player's turn only when the player is
\* human, the turn timer is enabled, no battle is in progress, turnTimer
\* <= 0, baseTimer <= 0 and the player has no pending query; with turnTimer
\* <= 0 and baseTimer > 0 the call moves the whole baseTimer into turnTimer,
\* sets baseTimer to 0 and does not end the turn.
C19_ForcedEndOnlyWhenOutOfTime ==
    [][IsMakingTurn =>
          /\ (tcall'.ended \/ ~inTurn') =>
                /\ human /\ enabled /\ ~curB
                /\ turnTimer <= 0 /\ baseTimer <= 0
                /\ ~topQuery
          /\ (timerRuns(human, enabled, curB) /\ turnTimer <= 0 /\ baseTimer > 0) =>
                /\ turnTimer' = baseTimer
                /\ baseTimer' = 0
                /\ ~tcall'.ended /\ inTurn']_vars

\* C19 witness: the call found both timers used up, the turn timer below
\* zero, and ended the turn
C19_Witness ==
    /\ tcall.op = "onPlayerMakingTurn" /\ tcall.ended
    /\ ~inTurn
    /\ turnTimer < 0 /\ baseTimer = 0
    /\ TimerRunsFreely

\* C20: for a human player in turn, with the timer enabled, who stays
\* without battle and without pending query, the repeated calls of
\* onPlayerMakingTurn with waitTime > 0 end the turn; and a call nests
\* onPlayerMakingTurn(player, 0) at most one level deep.
C20_TurnEventuallyEnds ==
    /\ []<>~(TimerRunsFreely /\ inTurn)
    /\ [](tcall.depth <= 1)

\* C20 witness: a turn that started with turn time and base time was ended
\* by the timer, after the base timer had been moved by a nested call
C20_Witness ==
    /\ tcall.op = "onPlayerMakingTurn" /\ tcall.ended
    /\ turns = 1
    /\ cfgTurnTimer > 0 /\ cfgBaseTimer > 0
    /\ ~inTurn
====
